---- MODULE Spec2Model ----
(***************************************************************************)
(* Model of generate_duet_matrices.py: the index allocator                 *)
(* (randomly_choose_indexes), the matrix builder (generate_mat), the       *)
(* orchestrator (get_player_matrices), the test helper (test_matrices)     *)
(* and the export step (write_matrix_to_csv, main).                        *)
(*                                                                         *)
(* Python lists are sequences (position p of the model is index p-1 of the *)
(* list), Python sets are sets, Tile members are their names.              *)
(* random.sample(population, k) is a nondeterministic choice of k distinct *)
(* positions of the population; the code turns the sample into a set at    *)
(* once, so the order of the sample is not kept.                           *)
(***************************************************************************)
EXTENDS Integers, Sequences, FiniteSets, TLC

VARIABLES
    mat_size,           \* argument of get_player_matrices / generate_mat
    pc,                 \* position of the running call
    available_indexes,  \* the mutable list passed to randomly_choose_indexes
    chosen,             \* the four chosen_*_indexes_player_* sets of get_player_matrices
    mat_one, mat_two,   \* the boards built by get_player_matrices
    draws,              \* number of completed randomly_choose_indexes calls of this run
    tape,               \* outcomes of random.sample in the first run, in order
    run,                \* 1: first run, 2: rerun under the same random outcomes
    first_result,       \* what the first run handed to its caller
    csv,                \* rows written by write_matrix_to_csv, per output file
    amount,             \* argument of a direct randomly_choose_indexes call
    chosen_indexes,     \* value returned by a direct randomly_choose_indexes call
    black_indexes,      \* arguments of a direct generate_mat call
    green_indexes,
    mat,                \* value returned by a direct generate_mat call
    before              \* the arguments as they were when the direct call was made

vars == <<mat_size, pc, available_indexes, chosen, mat_one, mat_two, draws, tape,
          run, first_result, csv, amount, chosen_indexes, black_indexes,
          green_indexes, mat, before>>

----------------------------------------------------------------------------
(* Bounds of the model *)

MaxSize == 11       \* board sizes 0..MaxSize for a generation run
MaxTwinSize == 10   \* board sizes 0..MaxTwinSize for the run/rerun pair
MaxPoolLen == 3     \* pools of at most MaxPoolLen entries for a direct draw
MaxPoolVal == 2     \* pool entries 0..MaxPoolVal for a direct draw
MaxMatSize == 3     \* sizes 0..MaxMatSize, indexes -2..MaxMatSize for a direct build

----------------------------------------------------------------------------
(* Program constants *)

NEUTRAL == "NEUTRAL"
BLACK == "BLACK"
GREEN == "GREEN"
Tile == {NEUTRAL, BLACK, GREEN}

GREEN_AMOUNT_PER_PLAYER == 4
BLACK_AMOUNT_PER_PLAYER == 1

----------------------------------------------------------------------------
(* Helpers *)

Range(s) == {s[p] : p \in 1..Len(s)}

NoDuplicates(s) == \A p, q \in 1..Len(s) : s[p] = s[q] => p = q

RECURSIVE SeqsUpTo(_, _)
SeqsUpTo(S, n) ==
    IF n = 0 THEN {<<>>}
    ELSE LET shorter == SeqsUpTo(S, n - 1)
         IN  shorter \cup {Append(s, x) : s \in {t \in shorter : Len(t) = n - 1}, x \in S}

----------------------------------------------------------------------------
(* randomly_choose_indexes *)

\* random.sample raises ValueError when the sample is larger than the
\* population or negative
random_sample_raises_offbyone(population, k) == k < 0 \/ k >= Len(population)
random_sample_raises(population, k) == k < 0 \/ k > Len(population)

\* the positions random.sample may pick: any k distinct positions
random_sample(population, k) ==
    {S \in SUBSET (1..Len(population)) : Cardinality(S) = k}

\* list.remove(x): removes the first occurrence of x
list_remove_pop(s, x) ==
    IF x + 1 \in 1..Len(s)
    THEN SubSeq(s, 1, x) \o SubSeq(s, x + 2, Len(s))
    ELSE s
list_remove(s, x) ==
    LET p == CHOOSE q \in 1..Len(s) : s[q] = x /\ \A r \in 1..(q - 1) : s[r] # x
    IN  SubSeq(s, 1, p - 1) \o SubSeq(s, p + 1, Len(s))

\* for i in chosen_indexes: available_indexes.remove(i)
RECURSIVE remove_chosen(_, _)
remove_chosen_pop_last(s, chosen_set) ==
    SubSeq(s, 1, Len(s) - Cardinality(chosen_set))
remove_chosen(s, chosen_set) ==
    IF chosen_set = {} THEN s
    ELSE LET i == CHOOSE x \in chosen_set : TRUE
         IN  remove_chosen(list_remove(s, i), chosen_set \ {i})

\* a returning call: S is the set of positions random.sample picked
randomly_choose_indexes(pool, S) ==
    LET picked == {pool[p] : p \in S}
    IN  [chosen_indexes |-> picked,
         available_indexes |-> remove_chosen(pool, picked)]

\* a raising call: the list as the exception leaves it
pool_at_raise_drained(pool, k) == <<>>
pool_at_raise(pool, k) == pool

----------------------------------------------------------------------------
(* generate_mat *)

tile_at(black, green, i) ==
    IF i \in black THEN BLACK
    ELSE IF i \in green THEN GREEN
    ELSE NEUTRAL

generate_mat_green_first(black, green, size) ==
    [p \in 1..size |-> IF (p - 1) \in green THEN GREEN
                       ELSE IF (p - 1) \in black THEN BLACK ELSE NEUTRAL]
generate_mat_short(black, green, size) ==
    [p \in 1..(size - 1) |-> tile_at(black, green, p)]
generate_mat_by_assignment(black, green, size) ==
    [p \in 1..size |-> tile_at({i \in -size..(size - 1) : i \in black \/ (i - size) \in black},
                               {i \in -size..(size - 1) : i \in green \/ (i - size) \in green},
                               p - 1)]
generate_mat(black, green, size) ==
    [p \in 1..size |-> tile_at(black, green, p - 1)]

----------------------------------------------------------------------------
(* test_matrices: TRUE iff none of its assertions fails *)

test_matrices(matrix_1, matrix_2) ==
    /\ Len(matrix_1) = Len(matrix_2)
    /\ \A p \in 1..Len(matrix_1) :
          /\ matrix_1[p] \in {GREEN, BLACK} => matrix_2[p] = NEUTRAL
          /\ matrix_2[p] \in {GREEN, BLACK} => matrix_1[p] = NEUTRAL

----------------------------------------------------------------------------
(* write_matrix_to_csv *)

\* sqrt_len == int(sqrt_len)
IsSquareLen(n) == \E r \in 0..n : r * r = n
RowSize(n) == CHOOSE r \in 0..n : r * r = n

csv_rows(matrix) ==
    LET row_size == RowSize(Len(matrix))
    IN  [row \in 1..row_size |->
            [col \in 1..row_size |-> matrix[(row - 1) * row_size + col]]]

----------------------------------------------------------------------------
(* get_player_matrices *)

\* the requested amount of the k-th draw
draw_amount(k) ==
    IF k \in {1, 3} THEN GREEN_AMOUNT_PER_PLAYER ELSE BLACK_AMOUNT_PER_PLAYER

\* which local the k-th draw is assigned to
draw_target(k) == <<"green_one", "black_one", "green_two", "black_two">>[k]

NoChosen == [green_one |-> {}, black_one |-> {}, green_two |-> {}, black_two |-> {}]

\* available_indexes = [i for i in range(mat_size)]
initial_pool_one_based(size) == [p \in 1..size |-> p]
initial_pool_shared(size) ==
    IF run = 1 THEN [p \in 1..size |-> p - 1] ELSE available_indexes
initial_pool(size) == [p \in 1..size |-> p - 1]

IdleUnit ==
    /\ amount = 0
    /\ chosen_indexes = {}
    /\ black_indexes = {}
    /\ green_indexes = {}
    /\ mat = <<>>
    /\ before = <<>>

IdleRun ==
    /\ chosen = NoChosen
    /\ mat_one = <<>>
    /\ mat_two = <<>>
    /\ draws = 0
    /\ tape = <<>>
    /\ run = 1
    /\ first_result = <<>>
    /\ csv = <<>>

unitVars == <<amount, chosen_indexes, black_indexes, green_indexes, mat, before>>

InitSizes(sizes) ==
    /\ mat_size \in sizes
    /\ pc = "start"
    /\ available_indexes = <<>>
    /\ IdleRun
    /\ IdleUnit

Init == InitSizes(0..MaxSize)

\* line 55
Start ==
    /\ pc = "start"
    /\ available_indexes' = initial_pool(mat_size)
    /\ pc' = "draw"
    /\ UNCHANGED <<mat_size, chosen, mat_one, mat_two, draws, tape, run,
                   first_result, csv>>
    /\ UNCHANGED unitVars

\* lines 56-59: one returning call of randomly_choose_indexes
Draw ==
    /\ pc = "draw"
    /\ ~random_sample_raises(available_indexes, draw_amount(draws + 1))
    /\ \E S \in random_sample(available_indexes, draw_amount(draws + 1)) :
          /\ run = 2 => S = tape[draws + 1]
          /\ LET r == randomly_choose_indexes(available_indexes, S)
             IN  /\ available_indexes' = r.available_indexes
                 /\ chosen' = [chosen EXCEPT ![draw_target(draws + 1)] = r.chosen_indexes]
          /\ tape' = IF run = 1 THEN Append(tape, S) ELSE tape
    /\ draws' = draws + 1
    /\ pc' = IF draws + 1 = 4 THEN "generate" ELSE "draw"
    /\ UNCHANGED <<mat_size, mat_one, mat_two, run, first_result, csv>>
    /\ UNCHANGED unitVars

\* lines 56-59: a call of randomly_choose_indexes in which random.sample raises;
\* the exception leaves get_player_matrices
DrawRaise ==
    /\ pc = "draw"
    /\ random_sample_raises(available_indexes, draw_amount(draws + 1))
    /\ available_indexes' = pool_at_raise(available_indexes, draw_amount(draws + 1))
    /\ pc' = "error"
    /\ UNCHANGED <<mat_size, chosen, mat_one, mat_two, draws, tape, run,
                   first_result, csv>>
    /\ UNCHANGED unitVars

\* lines 60-62
Generate ==
    /\ pc = "generate"
    /\ mat_one' = generate_mat(chosen.black_one, chosen.green_one, mat_size)
    /\ mat_two' = generate_mat(chosen.black_two, chosen.green_two, mat_size)
    /\ pc' = "done"
    /\ UNCHANGED <<mat_size, available_indexes, chosen, draws, tape, run,
                   first_result, csv>>
    /\ UNCHANGED unitVars

\* main, lines 93-94: both boards are written, unless the assertion of
\* write_matrix_to_csv fails (it fails before the file is opened)
Export ==
    /\ pc = "done"
    /\ run = 1
    /\ IF IsSquareLen(Len(mat_one))
       THEN IF IsSquareLen(Len(mat_two))
            THEN /\ csv' = <<csv_rows(mat_one), csv_rows(mat_two)>>
                 /\ pc' = "written"
            ELSE /\ csv' = <<csv_rows(mat_one)>>
                 /\ pc' = "assert_failed"
       ELSE /\ csv' = csv
            /\ pc' = "assert_failed"
    /\ UNCHANGED <<mat_size, available_indexes, chosen, mat_one, mat_two, draws,
                   tape, run, first_result>>
    /\ UNCHANGED unitVars

Next == Start \/ Draw \/ DrawRaise \/ Generate \/ Export

Spec == Init /\ [][Next]_vars

----------------------------------------------------------------------------
(* A run of get_player_matrices followed by a second run of the same size   *)
(* in which random.sample repeats the outcomes of the first (a seeded       *)
(* random source).                                                          *)

Rerun ==
    /\ pc \in {"done", "error"}
    /\ run = 1
    /\ first_result' = [pc |-> pc, mat_one |-> mat_one, mat_two |-> mat_two]
    /\ run' = 2
    /\ pc' = "start"
    /\ chosen' = NoChosen
    /\ mat_one' = <<>>
    /\ mat_two' = <<>>
    /\ draws' = 0
    \* the list of the finished call is garbage until line 55 rebinds the name
    /\ UNCHANGED <<mat_size, available_indexes, tape, csv>>
    /\ UNCHANGED unitVars

InitTwin == InitSizes(0..MaxTwinSize)

NextTwin == Start \/ Draw \/ DrawRaise \/ Generate \/ Rerun

SpecTwin == InitTwin /\ [][NextTwin]_vars

----------------------------------------------------------------------------
(* A direct call of randomly_choose_indexes on an arbitrary list *)

InitChoose ==
    /\ available_indexes \in SeqsUpTo(0..MaxPoolVal, MaxPoolLen)
    /\ amount \in -1..(MaxPoolLen + 1)
    /\ before = available_indexes
    /\ pc = "call"
    /\ mat_size = 0
    /\ chosen_indexes = {}
    /\ black_indexes = {}
    /\ green_indexes = {}
    /\ mat = <<>>
    /\ IdleRun

ChooseReturn ==
    /\ pc = "call"
    /\ ~random_sample_raises(available_indexes, amount)
    /\ \E S \in random_sample(available_indexes, amount) :
          LET r == randomly_choose_indexes(available_indexes, S)
          IN  /\ available_indexes' = r.available_indexes
              /\ chosen_indexes' = r.chosen_indexes
    /\ pc' = "returned"
    /\ UNCHANGED <<mat_size, chosen, mat_one, mat_two, draws, tape, run,
                   first_result, csv, amount, black_indexes, green_indexes,
                   mat, before>>

ChooseRaise ==
    /\ pc = "call"
    /\ random_sample_raises(available_indexes, amount)
    /\ available_indexes' = pool_at_raise(available_indexes, amount)
    /\ pc' = "raised"
    /\ UNCHANGED <<mat_size, chosen, mat_one, mat_two, draws, tape, run,
                   first_result, csv, amount, chosen_indexes, black_indexes,
                   green_indexes, mat, before>>

NextChoose == ChooseReturn \/ ChooseRaise

SpecChoose == InitChoose /\ [][NextChoose]_vars

----------------------------------------------------------------------------
(* A direct call of generate_mat on arbitrary sets *)

InitMat ==
    /\ mat_size \in 0..MaxMatSize
    /\ black_indexes \in SUBSET (-2..MaxMatSize)
    /\ green_indexes \in SUBSET (-2..MaxMatSize)
    /\ before = <<black_indexes, green_indexes>>
    /\ pc = "call"
    /\ mat = <<>>
    /\ available_indexes = <<>>
    /\ amount = 0
    /\ chosen_indexes = {}
    /\ IdleRun

CallGenerateMat ==
    /\ pc = "call"
    /\ mat' = generate_mat(black_indexes, green_indexes, mat_size)
    /\ pc' = "returned"
    /\ UNCHANGED <<mat_size, available_indexes, chosen, mat_one, mat_two, draws,
                   tape, run, first_result, csv, amount, chosen_indexes,
                   black_indexes, green_indexes, before>>

NextMat == CallGenerateMat

SpecMat == InitMat /\ [][NextMat]_vars

----------------------------------------------------------------------------
(* Properties *)

Returned == pc \in {"done", "assert_failed", "written"}

Count(s, t) == Cardinality({p \in 1..Len(s) : s[p] = t})

InRange(S, size) == {i \in S : 0 <= i /\ i < size}

\* total amount requested by the first k draws
RequestedBy(k) ==
    CASE k = 0 -> 0
      [] k = 1 -> GREEN_AMOUNT_PER_PLAYER
      [] k = 2 -> GREEN_AMOUNT_PER_PLAYER + BLACK_AMOUNT_PER_PLAYER
      [] k = 3 -> 2 * GREEN_AMOUNT_PER_PLAYER + BLACK_AMOUNT_PER_PLAYER
      [] k = 4 -> 2 * GREEN_AMOUNT_PER_PLAYER + 2 * BLACK_AMOUNT_PER_PLAYER

\* the first draw that asks for more than what the earlier draws left of size
FirstFailingDraw(size) ==
    CHOOSE k \in 1..4 : /\ RequestedBy(k) > size
                        /\ \A j \in 1..(k - 1) : RequestedBy(j) <= size

IsPositivePerfectSquare(n) == \E r \in 1..n : r * r = n

\* C1: whenever get_player_matrices has returned, at every index a GREEN or
\* BLACK tile of one board faces a NEUTRAL tile of the other board, in both
\* directions, which is what test_matrices asserts.
C1_SpecialTilesNeutralForOther ==
    Returned =>
        /\ \A i \in 0..(mat_size - 1) :
              /\ mat_one[i + 1] \in {GREEN, BLACK} => mat_two[i + 1] = NEUTRAL
              /\ mat_two[i + 1] \in {GREEN, BLACK} => mat_one[i + 1] = NEUTRAL
        /\ test_matrices(mat_one, mat_two)

C1_Witness ==
    /\ pc = "done"
    /\ \E p, q \in 1..mat_size :
          /\ mat_one[p] = BLACK /\ mat_two[p] = NEUTRAL
          /\ mat_two[q] = GREEN /\ mat_one[q] = NEUTRAL

\* C2: a returning randomly_choose_indexes call on a duplicate-free list with
\* 0 <= amount <= len(list) returns exactly amount distinct elements, all
\* taken from the list as it was, and leaves the list as it was minus the
\* returned elements (order kept); such a call never raises.
C2_ChooseTakesExactlyAmount ==
    (NoDuplicates(before) /\ 0 <= amount /\ amount <= Len(before)) =>
        /\ pc # "raised"
        /\ pc = "returned" =>
              /\ Cardinality(chosen_indexes) = amount
              /\ chosen_indexes \subseteq Range(before)
              /\ Range(available_indexes) = Range(before) \ chosen_indexes
              /\ Len(available_indexes) = Len(before) - amount
              /\ available_indexes =
                    SelectSeq(before, LAMBDA x : x \notin chosen_indexes)

C2_Witness ==
    /\ pc = "returned"
    /\ NoDuplicates(before)
    /\ Len(before) = 3
    /\ amount = 2
    /\ Len(available_indexes) = 1

\* C3: whenever get_player_matrices has returned, each board has mat_size
\* entries, of which exactly 4 are GREEN, exactly 1 is BLACK and the other
\* mat_size - 5 are NEUTRAL.
C3_BoardComposition ==
    Returned =>
        \A board \in {mat_one, mat_two} :
            /\ Len(board) = mat_size
            /\ Count(board, GREEN) = GREEN_AMOUNT_PER_PLAYER
            /\ Count(board, BLACK) = BLACK_AMOUNT_PER_PLAYER
            /\ Count(board, NEUTRAL) =
                  mat_size - GREEN_AMOUNT_PER_PLAYER - BLACK_AMOUNT_PER_PLAYER

C3_Witness ==
    /\ pc = "done"
    /\ mat_size = 10
    /\ Count(mat_one, NEUTRAL) = 5
    /\ Count(mat_two, GREEN) = 4

\* C4: generate_mat returns mat_size tiles; tile i is BLACK if i is a black
\* index, otherwise GREEN if i is a green index, otherwise NEUTRAL, so an
\* index in both sets is BLACK.
C4_GenerateMatTiles ==
    pc = "returned" =>
        /\ Len(mat) = mat_size
        /\ \A i \in 0..(mat_size - 1) :
              /\ i \in black_indexes => mat[i + 1] = BLACK
              /\ (i \notin black_indexes /\ i \in green_indexes) => mat[i + 1] = GREEN
              /\ (i \notin black_indexes /\ i \notin green_indexes) => mat[i + 1] = NEUTRAL

C4_Witness ==
    /\ pc = "returned"
    /\ \E i \in 0..(mat_size - 1) :
          /\ i \in black_indexes \cap green_indexes
          /\ mat[i + 1] = BLACK
    /\ \E j \in 0..(mat_size - 1) : mat[j + 1] = GREEN

\* C5: a board size that is not a positive perfect square is rejected before
\* any draw: no draw is performed and no board is built or returned.
C5_InvalidSizeRejectedBeforeDraws ==
    ~IsPositivePerfectSquare(mat_size) =>
        /\ draws = 0
        /\ pc \notin {"generate", "done", "assert_failed", "written"}
        /\ mat_one = <<>>
        /\ mat_two = <<>>

\* C6: for mat_size < 10 the run raises at the first draw that asks for more
\* than the list holds, and no board is ever built or returned; for
\* mat_size >= 10 no draw raises.
C6_SmallSizesRaiseWithoutBoard ==
    /\ mat_size < 2 * (GREEN_AMOUNT_PER_PLAYER + BLACK_AMOUNT_PER_PLAYER) =>
          /\ pc \in {"start", "draw", "error"}
          /\ mat_one = <<>>
          /\ mat_two = <<>>
          /\ draws < FirstFailingDraw(mat_size)
          /\ pc = "error" => draws + 1 = FirstFailingDraw(mat_size)
          /\ (pc = "draw" /\ draws + 1 = FirstFailingDraw(mat_size)) =>
                (ENABLED DrawRaise /\ ~ENABLED Draw)
    /\ mat_size >= 2 * (GREEN_AMOUNT_PER_PLAYER + BLACK_AMOUNT_PER_PLAYER) =>
          /\ pc # "error"
          /\ pc = "draw" => ENABLED Draw

C6_Witness ==
    /\ pc = "error"
    /\ mat_size = 9
    /\ draws = 3
    /\ chosen.green_two # {}

\* C7: a second run of the same size under the same random.sample outcomes
\* ends as the first did and returns the same two boards.
C7_SameOutcomesSameBoards ==
    (run = 2 /\ pc \in {"done", "error"}) =>
        /\ pc = first_result.pc
        /\ mat_one = first_result.mat_one
        /\ mat_two = first_result.mat_two

C7_Witness ==
    /\ run = 2
    /\ pc = "done"
    /\ first_result.pc = "done"
    /\ mat_one[1] = GREEN
    /\ mat_two[2] = BLACK

\* C8: once created, the list of available indexes has no duplicates, holds
\* only indexes of [0, mat_size), and has mat_size minus the amounts of the
\* completed draws (4, 1, 4, 1) entries, so mat_size - 10 after the fourth;
\* no step makes it longer, and a completed draw makes it shorter by exactly
\* the requested amount.
C8_PoolInv ==
    pc # "start" =>
        /\ NoDuplicates(available_indexes)
        /\ Range(available_indexes) \subseteq 0..(mat_size - 1)
        /\ Len(available_indexes) = mat_size - RequestedBy(draws)
        /\ draws = 4 => Len(available_indexes) =
              mat_size - 2 * (GREEN_AMOUNT_PER_PLAYER + BLACK_AMOUNT_PER_PLAYER)

C8_PoolStep ==
    pc # "start" =>
        /\ Len(available_indexes') <= Len(available_indexes)
        /\ draws' = draws + 1 =>
              Len(available_indexes') =
                 Len(available_indexes) - <<4, 1, 4, 1>>[draws']

C8_PoolShrinksByRequestedAmounts == [](C8_PoolInv) /\ [][C8_PoolStep]_vars

C8_Witness ==
    /\ draws = 4
    /\ mat_size = 11
    /\ Len(available_indexes) = 1

\* C9: a randomly_choose_indexes call that asks for more than the list holds
\* raises, returns nothing, and leaves the list exactly as it was.
C9_OversizedDrawLeavesPool ==
    amount > Len(before) =>
        /\ pc # "returned"
        /\ pc = "call" => (ENABLED ChooseRaise /\ ~ENABLED ChooseReturn)
        /\ pc = "raised" =>
              /\ chosen_indexes = {}
              /\ available_indexes = before

C9_Witness ==
    /\ pc = "raised"
    /\ amount > Len(before)
    /\ Len(before) = 2
    /\ available_indexes = before

\* C10: generate_mat never fails and ignores indexes outside [0, mat_size):
\* its result is the result for the two sets restricted to [0, mat_size), and
\* it leaves both sets as they were.
C10_OutOfRangeIgnored ==
    /\ pc = "call" => ENABLED CallGenerateMat
    /\ pc = "returned" =>
          /\ mat = generate_mat(InRange(black_indexes, mat_size),
                                InRange(green_indexes, mat_size), mat_size)
          /\ <<black_indexes, green_indexes>> = before

C10_Witness ==
    /\ pc = "returned"
    /\ \E i \in black_indexes : i < 0
    /\ \E i \in green_indexes : i >= mat_size
    /\ \E i \in green_indexes : i < 0
    /\ \E p \in 1..mat_size : mat[p] = GREEN

====
